---- MODULE Spec2Model ----
(***************************************************************************)
(* Upload lifecycle (routines/views.py MediaAssetViewSet, routines/        *)
(* models.py UploadProgress and MediaAsset, core/storage.py                *)
(* SupabaseStorage) and achievement awarding (routines/views.py            *)
(* ClientAchievementViewSet).                                              *)
(*                                                                         *)
(* Every database write is committed when it is made (no transaction is    *)
(* opened by the views), so a handler that writes, calls the storage       *)
(* collaborator and writes again is split into one action per write and    *)
(* the requests in flight are kept in `inflight`.                          *)
(*                                                                         *)
(* The caller of a handler is given by the id of its UserProfile; how the  *)
(* request was authenticated is not modelled.  Strings that the code       *)
(* inspects (storage paths, file names) are sequences of one-character     *)
(* strings, longer tokens standing for a run of characters without '/'.    *)
(***************************************************************************)
EXTENDS Integers, Sequences, FiniteSets, TLC

VARIABLES
    sessions,      \* UploadProgress rows; upload_id = index
    assets,        \* MediaAsset rows; id = index
    stored,        \* paths of the objects held by the storage bucket
    inflight,      \* upload requests between two of their writes
    completedLog,  \* history: upload ids whose row was ever saved as 'completed'
    clock,         \* timezone.now() / datetime.now(), in ticks
    resp,          \* what the last step returned to its caller (NoResp: nothing)
    achievements,  \* Achievement rows; id = index
    progressRows,  \* ExerciseProgress rows
    awards,        \* ClientAchievement rows
    checks,        \* check_achievements requests in flight
    checked        \* history: clients whose last check ended with nothing changed since

vars == <<sessions, assets, stored, inflight, completedLog, clock, resp,
          achievements, progressRows, awards, checks, checked>>

uploadVars == <<sessions, assets, stored, inflight, completedLog>>
awardVars == <<achievements, progressRows, awards, checks, checked>>

-----------------------------------------------------------------------------
(* Bounds *)

MaxSessions == 1
MaxAssets == 2
MaxInflight == 1
MaxClock == 1
MaxChecks == 2
MaxProgress == 2
MaxDay == 2
MaxRows == 4
LastDay == 5
MaxDurationRows == 2

-----------------------------------------------------------------------------
(* Values *)

None == "None"
NoPath == <<>>
NoTime == -1
NoRating == 0
NotGiven == -1

Owners == {1, 12}

STATUS_CHOICES == {"pending", "uploading", "verifying", "completed", "failed"}

ASSET_TYPES == {"image", "video", "audio", "animation"}

\* settings.MAX_FILE_SIZES: the per-asset-type size ceiling, in bytes.
MAX_FILE_SIZES == [image |-> 2, video |-> 3, audio |-> 3, animation |-> 3]

\* settings.MEDIA_ASSET_TYPES: the content types allowed for each asset type.
MEDIA_ASSET_TYPES == [image |-> {"image/png"}, video |-> {"video/mp4"},
                      audio |-> {"audio/mpeg"}, animation |-> {"image/gif"}]

DigitChar == <<"0", "1", "2", "3", "4", "5", "6", "7", "8", "9">>

\* str(n) for 0 <= n < 100
Str(n) == IF n < 10 THEN <<DigitChar[n + 1]>>
          ELSE <<DigitChar[(n \div 10) + 1], DigitChar[(n % 10) + 1]>>

\* str.startswith
StartsWith(s, prefix) ==
    /\ Len(prefix) <= Len(s)
    /\ SubSeq(s, 1, Len(prefix)) = prefix

\* the positions of '/' in s
Slashes(s) == {i \in 1..Len(s) : s[i] = "/"}

Min(S) == CHOOSE x \in S : \A y \in S : x <= y

\* s.split('/')[1]; IndexError when s holds no '/'
HasSegment1(s) == Slashes(s) # {}

Segment1(s) ==
    LET first == Min(Slashes(s))
        rest == {i \in Slashes(s) : i > first}
        stop == IF rest = {} THEN Len(s) + 1 ELSE Min(rest)
    IN SubSeq(s, first + 1, stop - 1)

\* a segment as one string: a token is itself, any other run of characters
\* is a string that equals no token
Text(seg) == IF Len(seg) = 1 THEN seg[1] ELSE "(text)"

\* c.isalnum() or c in '._- '
IsSafeChar(c) == c \in {"a", "b", "0", "1", "2", ".", "_", "-", " "}

\* SupabaseStorage._generate_file_path:
\* f"{instructor_id}/{asset_type}/{timestamp}_{safe_filename}"
GenerateFilePath(file_name, instructor_id, asset_type, now) ==
    Str(instructor_id) \o <<"/", asset_type, "/">> \o Str(now) \o <<"_">>
        \o SelectSeq(file_name, IsSafeChar)

\* os.path.basename
Basename(path) ==
    IF Slashes(path) = {} THEN path
    ELSE SubSeq(path, (CHOOSE i \in Slashes(path) :
                          \A j \in Slashes(path) : j <= i) + 1, Len(path))

-----------------------------------------------------------------------------
(* Responses *)

\* op, code: the handler and its HTTP status; exc: the exception that left
\* the handler, if one did; upload_id, file_path: the request's arguments;
\* via: the branch of the handler's try block that was taken
\*   "storage_raised"  the storage collaborator raised
\*   "invalid"         MediaAsset.clean rejected the row
\*   "not_verified"    SupabaseStorage.verify_upload returned success = False
\*   "stored"          the object is confirmed / uploaded and the row created
\* new, at: check_achievements' new_achievements, and the achievement at
\* which an exception left its loop
\* verdict: what _check_achievement_criteria returned or raised
\* pct: the progress_percentage of the session in the response
NoResp == [op |-> "none", code |-> 0, exc |-> "", upload_id |-> 0,
           via |-> "", file_path |-> NoPath, new |-> {}, at |-> 0,
           verdict |-> "", pct |-> 0]

Reply(op, code, id) == [NoResp EXCEPT !.op = op, !.code = code, !.upload_id = id]

\* an exception that leaves the handler: the framework answers 500
Raised(op, exc, id) ==
    [NoResp EXCEPT !.op = op, !.code = 500, !.exc = exc, !.upload_id = id]

Via(r, via, file_path) == [r EXCEPT !.via = via, !.file_path = file_path]

-----------------------------------------------------------------------------
(* UploadProgress *)

\* a row that begins with all of its bytes uploaded
NewSessionUploaded(instructor, file_name, file_path, asset_type, total_size) ==
    [instructor |-> instructor, file_name |-> file_name, file_path |-> file_path,
     asset_type |-> asset_type, total_size |-> total_size,
     uploaded_size |-> total_size, status |-> "pending", error_message |-> None,
     completed_at |-> NoTime]

NewSession(instructor, file_name, file_path, asset_type, total_size) ==
    [instructor |-> instructor, file_name |-> file_name, file_path |-> file_path,
     asset_type |-> asset_type, total_size |-> total_size,
     uploaded_size |-> 0, status |-> "pending", error_message |-> None,
     completed_at |-> NoTime]

\* UploadProgress.create_for_direct_upload
CreateForDirectUpload(policy, instructor) ==
    NewSession(instructor, Basename(policy.file_path), policy.file_path,
               policy.asset_type, policy.max_size_bytes)

\* UploadProgress.create_for_traditional_upload
CreateForTraditionalUpload(file_obj, instructor, asset_type) ==
    NewSession(instructor, file_obj.name, NoPath, asset_type, file_obj.size)

\* Binding the keyword arguments kw of a call to
\* update_progress(self, uploaded_size, status=None, error_message=None):
\* a call without uploaded_size, or with a keyword the signature does not
\* have, raises TypeError before the body runs.
UpdateProgressBinds(kw) ==
    /\ "uploaded_size" \in DOMAIN kw
    /\ DOMAIN kw \subseteq {"uploaded_size", "status", "error_message"}

Arg(kw, name) == IF name \in DOMAIN kw THEN kw[name] ELSE None

\* UploadProgress.update_progress, for a call that binds
UpdateProgress(s, kw, now) ==
    LET status == Arg(kw, "status")
        error_message == Arg(kw, "error_message")
    IN [s EXCEPT
          !.uploaded_size = kw.uploaded_size,
          !.status = IF status # None THEN status ELSE @,
          !.error_message = IF error_message # None THEN error_message ELSE @,
          !.completed_at = IF status = "completed" THEN now ELSE @]

\* the history of rows saved as 'completed'
Logged(id, s) == IF s.status = "completed" THEN completedLog \cup {id}
                 ELSE completedLog

\* UploadProgress.objects.get(upload_id=..., instructor=...)
Found(upload_id, owner) ==
    /\ upload_id \in 1..Len(sessions)
    /\ sessions[upload_id].instructor = owner

-----------------------------------------------------------------------------
(* The storage collaborator.  A call to it either returns or raises; a    *)
(* signed URL is only issued for an object the bucket holds.              *)

\* SupabaseStorage(): create_client and _ensure_bucket_exists
Ctor == {"ok", "raise"}

\* the outcome of the calls made on the bucket
Ext == {"ok", "raise"}

\* SupabaseStorage.generate_upload_policy, when the signing call returns
GenerateUploadPolicy(file_name, instructor_id, asset_type, now) ==
    [file_path |-> GenerateFilePath(file_name, instructor_id, asset_type, now),
     max_size_bytes |-> MAX_FILE_SIZES[asset_type],
     asset_type |-> asset_type,
     instructor_id |-> instructor_id]

\* the ownership check without the '/' that ends the prefix
OwnsPathNoSlash(file_path, instructor_id) ==
    StartsWith(file_path, Str(instructor_id))

\* the check of SupabaseStorage.verify_upload that the path is the caller's
OwnsPath(file_path, instructor_id) ==
    StartsWith(file_path, Str(instructor_id) \o <<"/">>)

\* SupabaseStorage.verify_upload: the success flag.  Every exception raised
\* inside (a collaborator call, split('/')[1] on a path without '/') is
\* caught there and reported as failure.
StorageVerifyUpload(file_path, instructor_id, ext) ==
    /\ OwnsPath(file_path, instructor_id)
    /\ ext = "ok"
    /\ file_path \in stored
    /\ HasSegment1(file_path)

-----------------------------------------------------------------------------
(* MediaAsset *)

\* MediaAsset.clean, called by save() for a new row
Clean(asset_type, file_size) ==
    ~ (asset_type \in DOMAIN MAX_FILE_SIZES /\ file_size > MAX_FILE_SIZES[asset_type])

NewAsset(instructor, file_path, asset_type, file_size) ==
    [instructor |-> instructor, file_path |-> file_path,
     asset_type |-> asset_type, file_size |-> file_size]

-----------------------------------------------------------------------------
(* Requests in flight *)

Idle == [kind |-> "idle"]

Slots == 1..MaxInflight

FreeSlots == {i \in Slots : inflight[i] = Idle}

CheckSlots == 1..MaxChecks

-----------------------------------------------------------------------------
(* MediaAssetViewSet *)

FileNames == {NoPath, <<"a">>, <<"a", "/">>}

\* MediaAssetViewSet.get_upload_policy
GetUploadPolicy(owner, file_name, asset_type, ctor, ext) ==
    /\ Len(sessions) < MaxSessions
    /\ IF file_name = NoPath \/ asset_type = None
       THEN /\ resp' = Reply("get_upload_policy", 400, 0)
            /\ UNCHANGED sessions
       ELSE IF asset_type \notin ASSET_TYPES
       THEN /\ resp' = Reply("get_upload_policy", 400, 0)
            /\ UNCHANGED sessions
       ELSE IF ctor = "raise" \/ ext = "raise"
       THEN /\ resp' = Raised("get_upload_policy", "StorageError", 0)
            /\ UNCHANGED sessions
       ELSE LET policy == GenerateUploadPolicy(file_name, owner, asset_type, clock)
            IN /\ sessions' = Append(sessions, CreateForDirectUpload(policy, owner))
               /\ resp' = Reply("get_upload_policy", 200, Len(sessions) + 1)
    /\ UNCHANGED <<assets, stored, inflight, completedLog, clock>>
    /\ UNCHANGED awardVars

\* a path of the bucket that no policy of this run issued, under owner 12's
\* prefix
OtherPaths == {GenerateFilePath(<<"b">>, 12, "image", 0)}

IssuedPaths == {sessions[i].file_path : i \in 1..Len(sessions)} \ {NoPath}

\* a holder of a signed upload URL sends a file to the bucket
ClientPut(path) ==
    /\ path \in IssuedPaths \cup OtherPaths
    /\ path \notin stored
    /\ stored' = stored \cup {path}
    /\ resp' = NoResp
    /\ UNCHANGED <<sessions, assets, inflight, completedLog, clock>>
    /\ UNCHANGED awardVars

\* MediaAssetViewSet.update_progress.  The local variable `status` (the
\* request's status) hides rest_framework.status in the whole function, so
\* the two error returns raise AttributeError on status.HTTP_...
UpdateProgressEndpoint(owner, upload_id, uploaded_size, status, error_message) ==
    /\ IF upload_id = 0
       THEN /\ resp' = Raised("update_progress", "AttributeError", 0)
            /\ UNCHANGED <<sessions, completedLog>>
       ELSE IF ~ Found(upload_id, owner)
       THEN /\ resp' = Raised("update_progress", "AttributeError", upload_id)
            /\ UNCHANGED <<sessions, completedLog>>
       ELSE LET progress == sessions[upload_id]
                kw == [uploaded_size |-> IF uploaded_size \in {NotGiven, 0}
                                         THEN progress.uploaded_size
                                         ELSE uploaded_size,
                       status |-> status,
                       error_message |-> error_message]
                saved == UpdateProgress(progress, kw, clock)
            IN /\ sessions' = [sessions EXCEPT ![upload_id] = saved]
               /\ completedLog' = Logged(upload_id, saved)
               /\ resp' = Reply("update_progress", 200, upload_id)
    /\ UNCHANGED <<assets, stored, inflight, clock>>
    /\ UNCHANGED awardVars

\* what a client may send as file_path: a path that was issued, a path of an
\* object in the bucket, another path, or nothing
RequestPaths == IssuedPaths \cup OtherPaths \cup stored \cup {<<"1">>, NoPath}

\* MediaAssetViewSet.verify_upload, up to its first write: the row is moved
\* to 'verifying' with uploaded_size = total_size
VerifyUploadBegin(i, owner, upload_id, file_path) ==
    /\ i = Min(FreeSlots \cup {MaxInflight + 1})
    /\ i \in Slots
    /\ IF upload_id = 0 \/ file_path = NoPath
       THEN /\ resp' = Reply("verify_upload", 400, upload_id)
            /\ UNCHANGED <<sessions, inflight, completedLog>>
       ELSE IF ~ Found(upload_id, owner)
       THEN /\ resp' = Reply("verify_upload", 404, upload_id)
            /\ UNCHANGED <<sessions, inflight, completedLog>>
       ELSE LET loaded == sessions[upload_id]
                kw == [status |-> "verifying", uploaded_size |-> loaded.total_size]
                progress == UpdateProgress(loaded, kw, clock)
            IN /\ sessions' = [sessions EXCEPT ![upload_id] = progress]
               /\ completedLog' = Logged(upload_id, progress)
               /\ inflight' = [inflight EXCEPT ![i] =
                     [kind |-> "verify", owner |-> owner, upload_id |-> upload_id,
                      file_path |-> file_path, progress |-> progress]]
               /\ resp' = NoResp
    /\ UNCHANGED <<assets, stored, clock>>
    /\ UNCHANGED awardVars

\* A call progress.update_progress(**kw) made by a handler on its in-memory
\* row: the row it saves, or the row untouched when the call raises TypeError.
\* save(update_fields=...) writes the in-memory values of the four fields.
SaveProgress(id, progress, kw) ==
    IF UpdateProgressBinds(kw)
    THEN LET p == UpdateProgress(progress, kw, clock)
         IN [sessions EXCEPT ![id] =
                [@ EXCEPT !.uploaded_size = p.uploaded_size, !.status = p.status,
                          !.error_message = p.error_message,
                          !.completed_at = p.completed_at]]
    ELSE sessions

LogAfter(id, after) == IF after[id].status = "completed"
                       THEN completedLog \cup {id} ELSE completedLog

\* the `except Exception as e` block of verify_upload
VerifyUploadExcept(r, err, via) ==
    LET kw == [status |-> "failed", error_message |-> err]
    IN /\ sessions' = SaveProgress(r.upload_id, r.progress, kw)
       /\ resp' = Via(IF UpdateProgressBinds(kw)
                      THEN Reply("verify_upload", 500, r.upload_id)
                      ELSE Raised("verify_upload", "TypeError", r.upload_id),
                      via, r.file_path)

\* MediaAssetViewSet.verify_upload, the try block and its handler
VerifyUploadFinish(i, ctor, ext) ==
    /\ i \in Slots
    /\ inflight[i].kind = "verify"
    /\ LET r == inflight[i]
           success == StorageVerifyUpload(r.file_path, r.owner, ext)
           kwFailed == [status |-> "failed",
                        error_message |-> "Upload verification failed"]
           kwDone == [status |-> "completed", file_path |-> r.file_path]
           asset == NewAsset(r.owner, r.file_path, Text(Segment1(r.file_path)), 0)
       IN /\ IF ctor = "raise"
             THEN /\ VerifyUploadExcept(r, "StorageError", "storage_raised")
                  /\ UNCHANGED assets
             ELSE IF ~ success
             THEN /\ UNCHANGED assets
                  /\ IF UpdateProgressBinds(kwFailed)
                     THEN /\ sessions' = SaveProgress(r.upload_id, r.progress, kwFailed)
                          /\ resp' = Via(Reply("verify_upload", 400, r.upload_id),
                                         "not_verified", r.file_path)
                     ELSE VerifyUploadExcept(r, "TypeError", "not_verified")
             ELSE IF ~ Clean(asset.asset_type, asset.file_size)
             THEN /\ VerifyUploadExcept(r, "ValidationError", "invalid")
                  /\ UNCHANGED assets
             ELSE /\ Len(assets) < MaxAssets
                  /\ assets' = Append(assets, asset)
                  /\ IF UpdateProgressBinds(kwDone)
                     THEN /\ sessions' = SaveProgress(r.upload_id, r.progress, kwDone)
                          /\ resp' = Via(Reply("verify_upload", 200, r.upload_id),
                                         "stored", r.file_path)
                     ELSE VerifyUploadExcept(r, "TypeError", "stored")
          /\ completedLog' = LogAfter(r.upload_id, sessions')
    /\ inflight' = [inflight EXCEPT ![i] = Idle]
    /\ UNCHANGED <<stored, clock>>
    /\ UNCHANGED awardVars

\* the uploaded files a request may carry: none, or a name, content type, size
NoFile == [name |-> NoPath, content_type |-> None, size |-> 0]

Files ==
    {NoFile} \cup [name : {<<"a">>}, content_type : {"image/png", "text/plain"},
                   size : {2, 3}]

\* the asset type whose allowed content types hold content_type, if any
AssetTypeOf(content_type) ==
    IF \E ty \in DOMAIN MEDIA_ASSET_TYPES : content_type \in MEDIA_ASSET_TYPES[ty]
    THEN CHOOSE ty \in DOMAIN MEDIA_ASSET_TYPES : content_type \in MEDIA_ASSET_TYPES[ty]
    ELSE None

\* a size test that the maximum itself fails
ReachesMaximum(size, asset_type) == size >= MAX_FILE_SIZES[asset_type]

\* max_size and file_obj.size > max_size
ExceedsMaximum(size, asset_type) == size > MAX_FILE_SIZES[asset_type]

\* MediaAssetViewSet.perform_create, up to the creation of the tracking row
PerformCreateBegin(i, owner, file_obj) ==
    /\ i = Min(FreeSlots \cup {MaxInflight + 1})
    /\ i \in Slots
    /\ Len(sessions) < MaxSessions
    /\ IF file_obj = NoFile
       THEN /\ resp' = Raised("create", "ValidationError", 0)
            /\ UNCHANGED <<sessions, inflight>>
       ELSE IF AssetTypeOf(file_obj.content_type) = None
       THEN /\ resp' = Raised("create", "ValidationError", 0)
            /\ UNCHANGED <<sessions, inflight>>
       ELSE IF ExceedsMaximum(file_obj.size, AssetTypeOf(file_obj.content_type))
       THEN /\ resp' = Raised("create", "ValidationError", 0)
            /\ UNCHANGED <<sessions, inflight>>
       ELSE LET asset_type == AssetTypeOf(file_obj.content_type)
                progress == CreateForTraditionalUpload(file_obj, owner, asset_type)
            IN /\ sessions' = Append(sessions, progress)
               /\ inflight' = [inflight EXCEPT ![i] =
                     [kind |-> "create", owner |-> owner,
                      upload_id |-> Len(sessions) + 1, file_obj |-> file_obj,
                      asset_type |-> asset_type, progress |-> progress]]
               /\ resp' = NoResp
    /\ UNCHANGED <<assets, stored, completedLog, clock>>
    /\ UNCHANGED awardVars

\* perform_create: file_obj.read() and the update to 'uploading'
PerformCreateRead(i) ==
    /\ i \in Slots
    /\ inflight[i].kind = "create"
    /\ LET r == inflight[i]
           kw == [uploaded_size |-> r.file_obj.size, status |-> "uploading"]
       IN /\ sessions' = SaveProgress(r.upload_id, r.progress, kw)
          /\ completedLog' = LogAfter(r.upload_id, sessions')
          /\ inflight' = [inflight EXCEPT ![i] =
                [r EXCEPT !.kind = "upload",
                          !.progress = UpdateProgress(r.progress, kw, clock)]]
    /\ resp' = NoResp
    /\ UNCHANGED <<assets, stored, clock>>
    /\ UNCHANGED awardVars

\* the `except Exception as e` block of perform_create: record, then re-raise
PerformCreateExcept(r, err, via, file_path) ==
    LET kw == [status |-> "failed", error_message |-> err]
    IN /\ sessions' = SaveProgress(r.upload_id, r.progress, kw)
       /\ resp' = Via(IF UpdateProgressBinds(kw)
                      THEN Raised("create", err, r.upload_id)
                      ELSE Raised("create", "TypeError", r.upload_id),
                      via, file_path)

\* perform_create: MediaAsset.create_from_upload (SupabaseStorage.upload_file,
\* then the row) and the update to 'completed'
PerformCreateUpload(i, ctor, ext) ==
    /\ i \in Slots
    /\ inflight[i].kind = "upload"
    /\ LET r == inflight[i]
           file_path == GenerateFilePath(r.file_obj.name, r.owner, r.asset_type, clock)
           asset == NewAsset(r.owner, file_path, r.asset_type, r.file_obj.size)
           kwDone == [status |-> "completed", file_path |-> file_path]
       IN /\ IF ctor = "raise" \/ ext = "upload_raises"
             THEN /\ PerformCreateExcept(r, "StorageError", "storage_raised", file_path)
                  /\ UNCHANGED <<assets, stored>>
             ELSE IF ext = "sign_raises"
             THEN /\ stored' = stored \cup {file_path}
                  /\ PerformCreateExcept(r, "StorageError", "storage_raised", file_path)
                  /\ UNCHANGED assets
             ELSE IF ~ Clean(asset.asset_type, asset.file_size)
             THEN /\ stored' = stored \cup {file_path}
                  /\ PerformCreateExcept(r, "ValidationError", "invalid", file_path)
                  /\ UNCHANGED assets
             ELSE /\ Len(assets) < MaxAssets
                  /\ stored' = stored \cup {file_path}
                  /\ assets' = Append(assets, asset)
                  /\ IF UpdateProgressBinds(kwDone)
                     THEN /\ sessions' = SaveProgress(r.upload_id, r.progress, kwDone)
                          /\ resp' = Via(Reply("create", 201, r.upload_id),
                                         "stored", file_path)
                     ELSE PerformCreateExcept(r, "TypeError", "stored", file_path)
          /\ completedLog' = LogAfter(r.upload_id, sessions')
    /\ inflight' = [inflight EXCEPT ![i] = Idle]
    /\ UNCHANGED clock
    /\ UNCHANGED awardVars

\* time passes
Tick ==
    /\ clock < MaxClock
    /\ clock' = clock + 1
    /\ resp' = NoResp
    /\ UNCHANGED uploadVars
    /\ UNCHANGED awardVars

-----------------------------------------------------------------------------

UploadInit ==
    /\ sessions = <<>>
    /\ assets = <<>>
    /\ stored = {}
    /\ inflight = [i \in Slots |-> Idle]
    /\ completedLog = {}
    /\ clock = 0
    /\ resp = NoResp

AwardIdle ==
    /\ achievements = <<>>
    /\ progressRows = <<>>
    /\ awards = <<>>
    /\ checks = [i \in CheckSlots |-> Idle]
    /\ checked = {}

Init == UploadInit /\ AwardIdle

\* the inputs of a request that is answered before they are read are not
\* varied; an uploaded_size of 0 is read as an absent one, and an
\* error_message comes with the status 'failed'
Only(cond, S, dflt) == IF cond THEN S ELSE {dflt}

Next ==
    \/ \E owner \in Owners, file_name \in FileNames,
          asset_type \in {None, "image", "bogus"} :
          \E ctor \in Only(file_name # NoPath /\ asset_type \in ASSET_TYPES, Ctor, "ok"),
             ext \in Only(file_name # NoPath /\ asset_type \in ASSET_TYPES, Ext, "ok") :
             GetUploadPolicy(owner, file_name, asset_type, ctor, ext)
    \/ \E path \in IssuedPaths \cup OtherPaths : ClientPut(path)
    \/ \E owner \in Owners, upload_id \in 0..MaxSessions :
          \E uploaded_size \in Only(Found(upload_id, owner), {NotGiven, 3}, NotGiven),
             status \in Only(Found(upload_id, owner), STATUS_CHOICES \cup {None}, None) :
          \E error_message \in Only(Found(upload_id, owner) /\ status = "failed",
                                   {None, "msg"}, None) :
             UpdateProgressEndpoint(owner, upload_id, uploaded_size, status, error_message)
    \/ \E i \in Slots, owner \in Owners, upload_id \in 0..MaxSessions :
          \E file_path \in Only(Found(upload_id, owner), RequestPaths, NoPath) :
             VerifyUploadBegin(i, owner, upload_id, file_path)
    \/ \E i \in Slots, ctor \in Ctor, ext \in Ext : VerifyUploadFinish(i, ctor, ext)
    \/ \E i \in Slots, owner \in Owners, file_obj \in Files :
          PerformCreateBegin(i, owner, file_obj)
    \/ \E i \in Slots : PerformCreateRead(i)
    \/ \E i \in Slots, ctor \in Ctor, ext \in {"ok", "upload_raises", "sign_raises"} :
          PerformCreateUpload(i, ctor, ext)
    \/ Tick

Spec == Init /\ [][Next]_vars

-----------------------------------------------------------------------------
(* Properties of the upload lifecycle *)

SessionIds == 1..Len(sessions)

Terminal == {"completed", "failed"}

\* the path begins with the decimal id of the owner followed by '/'
HasOwnerPrefix(file_path, owner) ==
    /\ Len(file_path) > Len(Str(owner))
    /\ \A k \in 1..Len(Str(owner)) : file_path[k] = Str(owner)[k]
    /\ file_path[Len(Str(owner)) + 1] = "/"

\* C1: every MediaAsset row has an UploadProgress row of the same owner that
\* has been saved with status 'completed' at or before the current state.
C1_AssetHasCompletedSession ==
    \A a \in 1..Len(assets) :
        \E id \in completedLog : sessions[id].instructor = assets[a].instructor

\* C1, where the claim's case happens: an asset exists
C1_AssetExists == Len(assets) > 0

\* C2: a row whose status is 'completed' or 'failed' keeps that status in
\* every step.
C2_TerminalStatusKept ==
    [][\A id \in SessionIds :
          sessions[id].status \in Terminal
              => sessions'[id].status = sessions[id].status]_vars

\* C2, where the claim's case happens: a row is in a terminal status
C2_TerminalReached == \E id \in SessionIds : sessions[id].status \in Terminal

C6_ExceptionRecorded ==
    (resp.op \in {"verify_upload", "create"}
        /\ resp.via \in {"storage_raised", "invalid"})
        => /\ sessions[resp.upload_id].status = "failed"
           /\ sessions[resp.upload_id].error_message # None

\* C6, where the claim's case happens: the collaborator raised in a handler
C6_StorageRaised ==
    resp.op \in {"verify_upload", "create"} /\ resp.via = "storage_raised"

C8_ForeignPathCreatesNoAsset ==
    [][(resp'.op = "verify_upload" /\ resp'.via # ""
            /\ ~ HasOwnerPrefix(resp'.file_path,
                                sessions'[resp'.upload_id].instructor))
          => assets' = assets]_vars

\* C8, where the claim's case happens: owner 1 asked to verify the object
\* that the bucket holds under owner 12's prefix, and the call was answered
C8_ForeignObjectRefused ==
    /\ resp.op = "verify_upload"
    /\ resp.via = "not_verified"
    /\ sessions[resp.upload_id].instructor = 1
    /\ resp.file_path \in stored
    /\ StartsWith(resp.file_path, <<"1", "2", "/">>)

-----------------------------------------------------------------------------
(* Achievement criteria: JSON values as Python sees them                   *)

I(n) == [t |-> "int", n |-> n, s |-> ""]
S(s) == [t |-> "str", n |-> 0, s |-> s]
B(b) == [t |-> "bool", n |-> IF b THEN 1 ELSE 0, s |-> ""]
Null == [t |-> "null", n |-> 0, s |-> ""]
List == [t |-> "list", n |-> 0, s |-> ""]

\* bool(v)
Truthy(v) ==
    CASE v.t \in {"int", "bool"} -> v.n # 0
      [] v.t = "str" -> v.s # ""
      [] v.t = "list" -> TRUE
      [] OTHER -> FALSE

\* dict.get(key, default)
Get(d, key, default) == IF key \in DOMAIN d THEN d[key] ELSE default

\* n >= v for an int n: "sat", "unsat", or the TypeError of comparing an int
\* with a str, a list or None
AtLeast(n, v) ==
    IF v.t \in {"int", "bool"}
    THEN IF n >= v.n THEN "sat" ELSE "unsat"
    ELSE "TypeError"

\* The value of the criteria column: a dict (its items in d), a list, or a
\* str holding JSON text that is invalid or decodes to a dict or to a list.
Dict(d) == [kind |-> "dict", text |-> "", d |-> d]
ListDoc == [kind |-> "list", text |-> "", d |-> <<>>]
JsonText(text, d) == [kind |-> "str", text |-> text, d |-> d]

\* json.loads(criteria) if isinstance(criteria, str) else criteria
Decode(criteria) ==
    IF criteria.kind # "str" THEN criteria
    ELSE IF criteria.text = "dict" THEN Dict(criteria.d)
    ELSE IF criteria.text = "list" THEN ListDoc
    ELSE [kind |-> "JSONDecodeError", text |-> "", d |-> <<>>]

-----------------------------------------------------------------------------
(* ExerciseProgress rows and the queries made on them                      *)

\* kind: the one of exercise / breathing_exercise / meditation_session that
\* is not null
ProgressRow(client, kind, completed_at, duration_seconds, difficulty_rating) ==
    [client |-> client, kind |-> kind, completed_at |-> completed_at,
     duration_seconds |-> duration_seconds,
     difficulty_rating |-> difficulty_rating]

\* the same fields with two of them exchanged
KindFieldSwapped == [exercise |-> "exercise", breathing |-> "meditation_session",
                     meditation |-> "breathing_exercise"]

\* the foreign key of ExerciseProgress that holds each kind of exercise
KindField == [exercise |-> "exercise", breathing |-> "breathing_exercise",
              meditation |-> "meditation_session"]

ExerciseProgressFields ==
    {"client", "exercise", "breathing_exercise", "meditation_session",
     "completed_at", "duration_seconds", "notes", "difficulty_rating", "feedback"}

RECURSIVE SumDuration(_, _)
SumDuration(rows, ks) ==
    IF ks = {} THEN 0
    ELSE LET k == CHOOSE x \in ks : TRUE
         IN rows[k].duration_seconds + SumDuration(rows, ks \ {k})

\* one number for each row, the same day counted again
RowNumbers(rows) == 1..Len(rows)

\* progress.dates('completed_at', 'day'): the distinct days
Days(rows) == {rows[k].completed_at : k \in 1..Len(rows)}

\* the longest run of days each one day after the one before, as the loop
\* over sorted(dates) computes it (1 for a single date)
RECURSIVE MaxStreakFrom(_, _, _, _)
MaxStreakFrom(dates_list, i, current_streak, max_streak) ==
    IF i > Len(dates_list) THEN max_streak
    ELSE IF dates_list[i] - dates_list[i - 1] = 1
    THEN MaxStreakFrom(dates_list, i + 1, current_streak + 1,
                       IF current_streak + 1 > max_streak
                       THEN current_streak + 1 ELSE max_streak)
    ELSE MaxStreakFrom(dates_list, i + 1, 1, max_streak)

RECURSIVE Sorted(_)
Sorted(D) == IF D = {} THEN <<>>
             ELSE LET m == CHOOSE x \in D : \A y \in D : x <= y
                  IN <<m>> \o Sorted(D \ {m})

\* the number of days, whether they follow one another or not
TotalDays(rows) == Cardinality(Days(rows))

MaxStreak(rows) == MaxStreakFrom(Sorted(Days(rows)), 2, 1, 1)

-----------------------------------------------------------------------------
(* ClientAchievementViewSet: the criteria checks.  Each returns "sat",      *)
(* "unsat" or the name of the exception it raises.                          *)

\* _check_exercise_count
CheckExerciseCount(rows, d) ==
    LET required_count == Get(d, "required_count", I(0))
        exercise_type == Get(d, "exercise_type", S("all"))
    IN IF exercise_type = S("all")
       THEN AtLeast(Len(rows), required_count)
       ELSE IF exercise_type \in {S("exercise"), S("breathing"), S("meditation")}
       THEN AtLeast(Cardinality({k \in 1..Len(rows) :
                        rows[k].kind = KindField[exercise_type.s]}), required_count)
       ELSE "unsat"

\* the same periods with a week of eight days
PeriodDaysLong == [day |-> 1, week |-> 8, month |-> 30]

\* the days of a recognised time_period
PeriodDays == [day |-> 1, week |-> 7, month |-> 30]

\* _check_duration
CheckDuration(rows, d, now) ==
    LET required_duration == Get(d, "required_duration", I(0))
        time_period == Get(d, "time_period", Null)
    IN IF ~ Truthy(time_period)
       THEN AtLeast(SumDuration(rows, 1..Len(rows)), required_duration)
       ELSE IF time_period.t = "str" /\ time_period.s \in DOMAIN PeriodDays
       THEN AtLeast(SumDuration(rows, {k \in 1..Len(rows) :
                        rows[k].completed_at >= now - PeriodDays[time_period.s]}),
                    required_duration)
       ELSE "unsat"

\* _check_consistency
CheckConsistency(rows, d) ==
    LET required_days == Get(d, "required_days", I(0))
        consecutive == Get(d, "consecutive", B(FALSE))
    IN IF Len(rows) = 0 THEN "unsat"
       ELSE IF Truthy(consecutive)
       THEN AtLeast(MaxStreak(rows), required_days)
       ELSE AtLeast(Cardinality(Days(rows)), required_days)

\* the lookup difficulty_rating__gte=v: a number is needed
RatingLookup(v) ==
    CASE v.t \in {"int", "bool"} -> "ok"
      [] v.t = "list" -> "TypeError"
      [] OTHER -> "ValueError"

\* the rows whose rating is null, or at least v
RatedOrNull(rows, v) ==
    {k \in 1..Len(rows) : \/ rows[k].difficulty_rating = NoRating
                          \/ rows[k].difficulty_rating >= v}

\* progress.filter(difficulty_rating__gte=v): a null rating matches nothing
Rated(rows, v) ==
    {k \in 1..Len(rows) : /\ rows[k].difficulty_rating # NoRating
                          /\ rows[k].difficulty_rating >= v}

\* _check_difficulty
CheckDifficulty(rows, d) ==
    LET required_difficulty == Get(d, "required_difficulty", I(0))
        required_count == Get(d, "required_count", I(1))
    IN IF RatingLookup(required_difficulty) # "ok"
       THEN RatingLookup(required_difficulty)
       ELSE AtLeast(Cardinality(Rated(rows, required_difficulty.n)),
                    required_count)

\* _check_combined_routine: both branches filter on combined_routine, which
\* is no field of ExerciseProgress, so filter() raises FieldError
CheckCombinedRoutine(rows, d) ==
    IF "combined_routine" \in ExerciseProgressFields
    THEN AtLeast(0, Get(d, "required_count", I(0)))
    ELSE "FieldError"

\* _check_achievement_criteria, on the decoded criteria
CheckAchievementCriteria(rows, criteria, now) ==
    IF criteria.kind # "dict" THEN "AttributeError"
    ELSE LET d == criteria.d
             achievement_type == Get(d, "type", Null)
         IN IF ~ Truthy(achievement_type) THEN "unsat"
            ELSE IF achievement_type.t = "list" THEN "TypeError"
            ELSE IF achievement_type = S("exercise_count")
            THEN CheckExerciseCount(rows, d)
            ELSE IF achievement_type = S("duration")
            THEN CheckDuration(rows, d, now)
            ELSE IF achievement_type = S("consistency")
            THEN CheckConsistency(rows, d)
            ELSE IF achievement_type = S("difficulty")
            THEN CheckDifficulty(rows, d)
            ELSE IF achievement_type = S("combined_routine")
            THEN CheckCombinedRoutine(rows, d)
            ELSE "unsat"

\* _get_progress_data: "ok" or the exception it raises.  For a count of one
\* kind of exercise the lookup is built from exercise_type itself.
GetProgressData(rows, d) ==
    LET achievement_type == Get(d, "type", Null)
        exercise_type == Get(d, "exercise_type", S("all"))
    IN IF achievement_type = S("exercise_count")
       THEN IF exercise_type = S("all") THEN "ok"
            ELSE IF exercise_type.t = "str" /\ exercise_type.s \in ExerciseProgressFields
            THEN "ok" ELSE "FieldError"
       ELSE IF achievement_type = S("combined_routine")
       THEN IF "combined_routine" \in ExerciseProgressFields
            THEN "ok" ELSE "FieldError"
       ELSE "ok"

\* the highest rating of the rows, None if no row is rated
MaxRating(rows) ==
    LET rated == {rows[k].difficulty_rating : k \in 1..Len(rows)} \ {NoRating}
    IN IF rated = {} THEN NoRating
       ELSE CHOOSE x \in rated : \A y \in rated : y <= x

\* _get_progress_data: the dict stored with the award, for the criteria that
\* can have been satisfied
ProgressData(rows, d, now) ==
    LET achievement_type == Get(d, "type", Null)
        data == [type |-> achievement_type, criteria_met_at |-> I(now)]
    IN IF achievement_type = S("exercise_count")
       THEN LET exercise_type == Get(d, "exercise_type", S("all"))
            IN data @@ [total_count |->
                   I(IF exercise_type = S("all") THEN Len(rows)
                     ELSE Cardinality({k \in 1..Len(rows) :
                              rows[k].kind = exercise_type.s}))]
       ELSE IF achievement_type = S("duration")
       THEN LET time_period == Get(d, "time_period", Null)
            IN data @@ [total_duration |->
                   I(SumDuration(rows,
                       IF ~ Truthy(time_period) THEN 1..Len(rows)
                       ELSE {k \in 1..Len(rows) : rows[k].completed_at >=
                                now - PeriodDays[time_period.s]}))]
       ELSE IF achievement_type = S("consistency")
       THEN IF Truthy(Get(d, "consecutive", Null))
            THEN data @@ [total_days |-> I(Cardinality(Days(rows))),
                          max_consecutive_days |-> I(MaxStreak(rows))]
            ELSE data @@ [total_days |-> I(Cardinality(Days(rows)))]
       ELSE IF achievement_type = S("difficulty")
       THEN data @@ [highest_difficulty |->
                         I(IF MaxRating(rows) = NoRating THEN 0 ELSE MaxRating(rows)),
                     difficulty_count |->
                         I(Cardinality(Rated(rows,
                               Get(d, "required_difficulty", I(0)).n)))]
       ELSE data

-----------------------------------------------------------------------------
(* The achievement catalogue                                                *)

EmptyDict == [k \in {} |-> Null]

NewAchievement(id, is_active, criteria) ==
    [id |-> id, is_active |-> is_active, criteria |-> criteria]

CountAll == Dict([type |-> S("exercise_count"), required_count |-> I(1)])
CountBreathing == Dict([type |-> S("exercise_count"), required_count |-> I(1),
                        exercise_type |-> S("breathing")])
CountText == JsonText("dict", [type |-> S("exercise_count"), required_count |-> I(2)])
CountWord == Dict([type |-> S("exercise_count"), required_count |-> S("ten")])
DurationDay == Dict([type |-> S("duration"), required_duration |-> I(2),
                     time_period |-> S("day")])
Streak == Dict([type |-> S("consistency"), required_days |-> I(2),
                consecutive |-> B(TRUE)])
Hard == Dict([type |-> S("difficulty"), required_difficulty |-> I(3)])
HardWord == Dict([type |-> S("difficulty"), required_difficulty |-> S("hard")])
HardList == Dict([type |-> S("difficulty"), required_difficulty |-> List])
Combined == Dict([type |-> S("combined_routine"), required_count |-> I(0)])
BadText == JsonText("invalid", EmptyDict)
ListText == JsonText("list", EmptyDict)
Untyped == Dict([required_count |-> I(1)])

\* the catalogues the pass is run on: two achievements each
Catalogues ==
    {<<NewAchievement(1, TRUE, a), NewAchievement(2, TRUE, b)>> :
        a \in {CountAll}, b \in {CountText, CountWord, BadText, ListDoc,
                                 Combined, CountBreathing}}
    \cup {<<NewAchievement(1, TRUE, DurationDay), NewAchievement(2, FALSE, CountAll)>>,
          <<NewAchievement(1, TRUE, Streak), NewAchievement(2, TRUE, Hard)>>,
          <<NewAchievement(1, TRUE, HardWord), NewAchievement(2, TRUE, Untyped)>>,
          <<NewAchievement(1, TRUE, ListText), NewAchievement(2, TRUE, HardList)>>}

\* Achievement.objects.filter(is_active=True), as ids
AllAchievements == {a \in 1..Len(achievements) : TRUE}
ActiveAchievements == {a \in 1..Len(achievements) : achievements[a].is_active}

-----------------------------------------------------------------------------
(* ClientAchievement rows                                                   *)

Clients == {3}
Role(user) == IF user \in Clients THEN "client" ELSE "instructor"


\* ClientAchievement.objects.create(client=..., achievement=...,
\* progress_data=...), earned_at being set by auto_now_add
NewAward(client, achievement, progress_data, now) ==
    [client |-> client, achievement |-> achievement, earned_at |-> now,
     progress_data |-> progress_data]

\* the table with the new row in the place of the rows there were
Replace(table, row) == <<row>>

\* INSERT: the rows there were, and the new one
Insert(table, row) == Append(table, row)

\* ClientAchievement.objects.filter(client=..., achievement=...).exists()
Exists(client, achievement) ==
    \E k \in 1..Len(awards) :
        awards[k].client = client /\ awards[k].achievement = achievement

\* unique_together = ('client', 'achievement'): may the row be inserted?
NoConstraint(table, row) == TRUE
UniqueTogether(table, row) ==
    \A k \in 1..Len(table) :
        ~ (table[k].client = row.client /\ table[k].achievement = row.achievement)

\* the achievements a client holds
Earned(table, client) ==
    {table[k].achievement : k \in {x \in 1..Len(table) : table[x].client = client}}

\* ExerciseProgress.objects.filter(client=user)
ProgressOf(client) == SelectSeq(progressRows, LAMBDA r : r.client = client)

-----------------------------------------------------------------------------
(* ClientAchievementViewSet.check_achievements, one step per query that     *)
(* another request can come between                                         *)

\* an except clause for the decoding error alone
CaughtDecodeOnly == {"JSONDecodeError"}

\* except (json.JSONDecodeError, TypeError)
Caught == {"JSONDecodeError", "TypeError"}

FreeCheckSlots == {i \in CheckSlots : checks[i] = Idle}

Busy(client) ==
    \E i \in CheckSlots : checks[i] # Idle /\ checks[i].client = client

\* a request of the client's that is no longer the only thing that happened
\* since the check before it, or since it began
Disturbed(r, client, keep_again) ==
    IF r = Idle \/ r.client # client THEN r
    ELSE [r EXCEPT !.steady = FALSE, !.again = keep_again /\ r.again]

\* the role test, the two querysets and the start of the loop
CheckBegin(i, user) ==
    IF Role(user) # "client"
    THEN /\ i = 1
         /\ resp' = Reply("check_achievements", 403, 0)
         /\ UNCHANGED <<clock, uploadVars, awardVars>>
    ELSE /\ FreeCheckSlots # {}
         /\ i = Min(FreeCheckSlots)
         /\ checks' = [j \in CheckSlots |->
                IF j = i
                THEN [kind |-> "check", client |-> user, pc |-> "exists",
                      todo |-> ActiveAchievements, cur |-> 0, new |-> {},
                      earned0 |-> Earned(awards, user), steady |-> TRUE,
                      again |-> user \in checked /\ ~ Busy(user)]
                ELSE IF checks[j] # Idle /\ checks[j].client = user
                THEN [checks[j] EXCEPT !.again = FALSE]
                ELSE checks[j]]
         /\ resp' = NoResp
         /\ UNCHANGED <<clock, uploadVars, achievements, progressRows,
                        awards, checked>>

\* the next achievement of the loop, in the order the database returns them,
\* and the exists() test on it
CheckExists(i, achievement) ==
    LET r == checks[i]
    IN /\ r # Idle
       /\ r.pc = "exists"
       /\ achievement \in r.todo
       /\ checks' = [checks EXCEPT ![i] =
              IF Exists(r.client, achievement)
              THEN [r EXCEPT !.todo = r.todo \ {achievement}]
              ELSE [r EXCEPT !.pc = "eval", !.cur = achievement]]
       /\ resp' = NoResp
       /\ UNCHANGED <<clock, uploadVars, achievements, progressRows,
                      awards, checked>>

\* what the body of the try block does for the achievement: "sat", "unsat"
\* or the exception raised
Verdict(client, achievement, now) ==
    LET criteria == Decode(achievements[achievement].criteria)
    IN IF criteria.kind = "JSONDecodeError" THEN "JSONDecodeError"
       ELSE CheckAchievementCriteria(ProgressOf(client), criteria, now)

\* the exception of the try block, "" if there is none
TryBlock(client, achievement, now) ==
    LET verdict == Verdict(client, achievement, now)
        criteria == Decode(achievements[achievement].criteria)
        data == GetProgressData(ProgressOf(client), criteria.d)
    IN IF verdict = "unsat" THEN ""
       ELSE IF verdict # "sat" THEN verdict
       ELSE IF data # "ok" THEN data
       ELSE IF ~ UniqueTogether(awards, [client |-> client,
                                         achievement |-> achievement])
       THEN "IntegrityError"
       ELSE ""

\* the end of a request, by a response or by an exception
Ended(client, steady) ==
    IF steady /\ \A j \in CheckSlots : checks'[j] = Idle \/ checks'[j].client # client
    THEN checked \cup {client}
    ELSE checked

\* the try block: decode, evaluate, collect the evidence, create the award
CheckEval(i) ==
    LET r == checks[i]
        exc == TryBlock(r.client, r.cur, clock)
        created == exc = "" /\ Verdict(r.client, r.cur, clock) = "sat"
    IN /\ r # Idle
       /\ r.pc = "eval"
       /\ awards' = IF created
                    THEN Insert(awards, NewAward(r.client, r.cur,
                             ProgressData(ProgressOf(r.client),
                                 Decode(achievements[r.cur].criteria).d, clock),
                             clock))
                    ELSE awards
       /\ IF exc = "" \/ exc \in Caught
          THEN /\ checks' = [checks EXCEPT ![i] =
                      [r EXCEPT !.pc = "exists", !.cur = 0,
                                !.todo = r.todo \ {r.cur},
                                !.new = IF created THEN r.new \cup {r.cur}
                                        ELSE r.new]]
               /\ resp' = NoResp
               /\ UNCHANGED checked
          ELSE /\ checks' = [checks EXCEPT ![i] = Idle]
               /\ resp' = [Raised("check_achievements", exc, 0) EXCEPT
                              !.new = r.new, !.at = r.cur]
               /\ checked' = Ended(r.client, r.steady)
       /\ UNCHANGED <<clock, uploadVars, achievements, progressRows>>

\* the response after the loop
CheckReturn(i) ==
    LET r == checks[i]
    IN /\ r # Idle
       /\ r.pc = "exists"
       /\ r.todo = {}
       /\ checks' = [checks EXCEPT ![i] = Idle]
       /\ resp' = [Reply("check_achievements", 200, 0) EXCEPT !.new = r.new]
       /\ checked' = Ended(r.client, r.steady)
       /\ UNCHANGED <<clock, uploadVars, achievements, progressRows, awards>>

\* ExerciseProgressViewSet.perform_create: a row for the caller, stamped now
LogProgress(user, kind, duration_seconds, difficulty_rating) ==
    /\ Len(progressRows) < MaxProgress
    /\ progressRows' = Append(progressRows,
           ProgressRow(user, kind, clock, duration_seconds, difficulty_rating))
    /\ checks' = [j \in CheckSlots |-> Disturbed(checks[j], user, FALSE)]
    /\ checked' = checked \ {user}
    /\ resp' = Reply("log_progress", 201, 0)
    /\ UNCHANGED <<clock, uploadVars, achievements, awards>>

\* a day passes
NextDay ==
    /\ clock < MaxDay
    /\ clock' = clock + 1
    /\ checks' = [j \in CheckSlots |->
           IF checks[j] = Idle THEN Idle ELSE [checks[j] EXCEPT !.steady = FALSE]]
    /\ resp' = NoResp
    /\ UNCHANGED <<uploadVars, achievements, progressRows, awards, checked>>

\* the rows a client logs
LoggedRows == {<<"exercise", 1, 3>>, <<"breathing_exercise", 2, NoRating>>}

AwardInit ==
    /\ achievements \in Catalogues
    /\ progressRows = <<>>
    /\ awards = <<>>
    /\ checks = [i \in CheckSlots |-> Idle]
    /\ checked = {}

InitAward == UploadInit /\ AwardInit

NextAward ==
    \/ \E i \in CheckSlots, user \in Clients \cup {1} : CheckBegin(i, user)
    \/ \E i \in CheckSlots, achievement \in 1..Len(achievements) :
          CheckExists(i, achievement)
    \/ \E i \in CheckSlots : CheckEval(i)
    \/ \E i \in CheckSlots : CheckReturn(i)
    \/ \E user \in Clients, row \in LoggedRows :
          LogProgress(user, row[1], row[2], row[3])
    \/ NextDay

SpecAward == InitAward /\ [][NextAward]_vars

-----------------------------------------------------------------------------
(* Properties of the awarding pass                                          *)

\* the number of award rows of a (client, achievement) pair
AwardCount(table, client, achievement) ==
    Cardinality({k \in 1..Len(table) :
        table[k].client = client /\ table[k].achievement = achievement})

\* request i ends in this step
Ends(i) == checks[i] # Idle /\ checks'[i] = Idle

\* request i ends in this step with the normal response
Returns(i) ==
    Ends(i) /\ resp'.op = "check_achievements" /\ resp'.code = 200

\* the keys of a criteria document that hold a threshold
Thresholds ==
    {"required_count", "required_duration", "required_days", "required_difficulty"}

\* criteria that are not of the expected structure: text that is not JSON, a
\* document that is not an object, a threshold that is not a number
Malformed(criteria) ==
    \/ criteria.kind = "list"
    \/ criteria.kind = "str" /\ criteria.text # "dict"
    \/ \E key \in Thresholds \cap DOMAIN criteria.d : criteria.d[key].t # "int"

\* C3: a check_achievements call that follows a finished call of the same
\* client, with no progress logged and no other call since, returns an empty
\* new_achievements list and leaves the client's awards as they were.
C3_SecondCallAwardsNothing ==
    [][\A i \in CheckSlots :
          (Ends(i) /\ checks[i].again)
          => /\ Returns(i)
             /\ resp'.new = {}
             /\ Earned(awards', checks[i].client) = checks[i].earned0]_vars

\* C4: whatever the interleaving of check_achievements calls, no (client,
\* achievement) pair has more than one ClientAchievement row.
C4_OneAwardPerPair ==
    \A client \in Clients, achievement \in 1..Len(achievements) :
        AwardCount(awards, client, achievement) <= 1

\* C4, its case: two calls passed exists() for one pair and the second
\* create was refused by the constraint
C4_SecondCreateRefused ==
    /\ resp.op = "check_achievements"
    /\ resp.exc = "IntegrityError"
    /\ AwardCount(awards, 3, resp.at) = 1

\* C9: when the pass reaches an achievement whose criteria are malformed, it
\* skips that achievement, creates nothing for it and goes on with the loop.
C9_MalformedCriteriaSkipped ==
    [][\A i \in CheckSlots :
          (/\ checks[i] # Idle
           /\ checks[i].pc = "eval"
           /\ checks'[i] # checks[i]
           /\ Malformed(achievements[checks[i].cur].criteria))
          => /\ checks'[i] # Idle
             /\ checks'[i].pc = "exists"
             /\ checks'[i].todo = checks[i].todo \ {checks[i].cur}
             /\ awards' = awards]_vars

\* the criteria of the achievement are satisfied by the client's progress
Satisfied(client, achievement, now) ==
    LET criteria == Decode(achievements[achievement].criteria)
    IN /\ criteria.kind = "dict"
       /\ CheckAchievementCriteria(ProgressOf(client), criteria, now) = "sat"

\* no award row is for an inactive achievement
NoInactiveAward ==
    \A k \in 1..Len(awards) : achievements[awards[k].achievement].is_active

\* C10: when a check_achievements call returns normally (progress and the
\* day as they were when it began), every active achievement the client had
\* not earned before the call has exactly one award row if its criteria are
\* satisfied and none if they are not; no award row is ever for an inactive
\* achievement.
C10_AwardIffSatisfied ==
    /\ []NoInactiveAward
    /\ [][\A i \in CheckSlots :
            (Returns(i) /\ checks[i].steady)
            => \A achievement \in ActiveAchievements \ checks[i].earned0 :
                  AwardCount(awards', checks[i].client, achievement)
                  = IF Satisfied(checks[i].client, achievement, clock)
                    THEN 1 ELSE 0]_vars

\* C10, its case: a call returned normally with a new award while another
\* achievement of the catalogue (inactive, unsatisfied or malformed) stays
\* unearned
C10_ReturnedWithAward ==
    /\ resp.op = "check_achievements"
    /\ resp.code = 200
    /\ resp.new # {}
    /\ \E achievement \in 1..Len(achievements) :
          achievement \notin Earned(awards, 3)

-----------------------------------------------------------------------------
(* The criteria checks on their own: a criteria document, the progress rows *)
(* and the evaluation time are drawn, _check_achievement_criteria is        *)
(* applied to them                                                          *)

\* the sequences over Elems of length at most n
SeqsUpTo(Elems, n) == UNION {[1..k -> Elems] : k \in 0..n}

\* a client other than the one evaluated
OtherClient == 4

Scenario(criteria, rows, now) == [criteria |-> criteria, rows |-> rows, now |-> now]

\* exercise_count criteria: a threshold, with and without exercise_type
CountCriteria ==
    {Dict([type |-> S("exercise_count"), required_count |-> I(n)]) : n \in 0..MaxRows}
    \cup {Dict([type |-> S("exercise_count"), required_count |-> I(n),
                exercise_type |-> S(f)]) :
             n \in 0..MaxRows, f \in {"all", "exercise", "breathing", "meditation"}}

\* rows of the three kinds of exercise, of the client and of another one
CountRows ==
    SeqsUpTo({ProgressRow(c, kind, 0, 1, NoRating) :
                 c \in {3, OtherClient},
                 kind \in {"exercise", "breathing_exercise", "meditation_session"}},
             MaxRows)

CountScenarios == {Scenario(c, r, 0) : c \in CountCriteria, r \in CountRows}

\* the drawn inputs as a state: one active achievement with the criteria, the
\* rows in the table, the evaluation time on the clock
Drawn(sc) ==
    /\ achievements = <<NewAchievement(1, TRUE, sc.criteria)>>
    /\ progressRows = sc.rows
    /\ clock = sc.now
    /\ awards = <<>>
    /\ checks = [i \in CheckSlots |-> Idle]
    /\ checked = {}
    /\ sessions = <<>>
    /\ assets = <<>>
    /\ stored = {}
    /\ inflight = [i \in Slots |-> Idle]
    /\ completedLog = {}
    /\ resp = NoResp

\* _check_achievement_criteria applied to the client's rows, as the try block
\* of check_achievements applies it
CheckCriteria ==
    /\ resp = NoResp
    /\ Len(achievements) = 1
    /\ resp' = [NoResp EXCEPT !.op = "check_criteria",
                              !.verdict = Verdict(3, 1, clock)]
    /\ UNCHANGED <<clock, uploadVars, awardVars>>

\* the criteria of the achievement evaluated, and whether they were
Criteria == achievements[1].criteria.d
Evaluated(type) ==
    /\ resp.op = "check_criteria"
    /\ "type" \in DOMAIN Criteria
    /\ Criteria.type = S(type)

InitCount == \E sc \in CountScenarios : Drawn(sc)
SpecCount == InitCount /\ [][CheckCriteria]_vars

\* the client's rows counted by an exercise_type filter
CountOf(filter) ==
    Cardinality({k \in 1..Len(progressRows) :
        /\ progressRows[k].client = 3
        /\ \/ filter = "all"
           \/ filter = "exercise" /\ progressRows[k].kind = "exercise"
           \/ filter = "breathing" /\ progressRows[k].kind = "breathing_exercise"
           \/ filter = "meditation" /\ progressRows[k].kind = "meditation_session"})

FilterOf(d) == IF "exercise_type" \in DOMAIN d THEN d.exercise_type.s ELSE "all"

\* C11: exercise_count criteria with required_count = N and an optional
\* filter on the kind of exercise are satisfied iff the number of the
\* client's rows that match the filter is at least N.
C11_CountAtLeastRequired ==
    Evaluated("exercise_count")
    => resp.verdict = IF CountOf(FilterOf(Criteria)) >= Criteria.required_count.n
                      THEN "sat" ELSE "unsat"

\* C11, its cases: exactly N rows of the filtered kind, beside rows of other
\* kinds, satisfy the criteria; N - 1 do not
C11_ExactlyRequired ==
    /\ Evaluated("exercise_count")
    /\ FilterOf(Criteria) = "breathing"
    /\ Criteria.required_count.n = 2
    /\ CountOf("breathing") = 2
    /\ CountOf("all") = 3
    /\ resp.verdict = "sat"

-----------------------------------------------------------------------------
(* consistency criteria *)

\* with and without required_days, with consecutive absent, true and false
StreakCriteria ==
    LET base == [type |-> S("consistency")]
        days(n) == [type |-> S("consistency"), required_days |-> I(n)]
    IN {Dict(base)}
       \cup {Dict(days(n)) : n \in 0..LastDay}
       \cup {Dict([type |-> S("consistency"), consecutive |-> B(b)]) : b \in BOOLEAN}
       \cup {Dict([type |-> S("consistency"), required_days |-> I(n),
                   consecutive |-> B(b)]) : n \in 0..LastDay, b \in BOOLEAN}

\* rows of the client on the days 1..LastDay, and a row of another client
StreakRows ==
    SeqsUpTo({ProgressRow(3, "exercise", day, 1, NoRating) : day \in 1..LastDay}
             \cup {ProgressRow(OtherClient, "exercise", 4, 1, NoRating)},
             MaxRows)

StreakScenarios == {Scenario(c, r, LastDay) : c \in StreakCriteria, r \in StreakRows}

InitStreak == \E sc \in StreakScenarios : Drawn(sc)
SpecStreak == InitStreak /\ [][CheckCriteria]_vars

\* the days on which the client completed something
DatesOf(client) ==
    {progressRows[k].completed_at :
        k \in {x \in 1..Len(progressRows) : progressRows[x].client = client}}

\* the length of the longest run of days of D that follow one another
LongestRun(D) ==
    CHOOSE n \in 0..Cardinality(D) :
        /\ n > 0 => \E first \in D : \A j \in 0..(n - 1) : first + j \in D
        /\ \A m \in (n + 1)..Cardinality(D) :
              ~ \E first \in D : \A j \in 0..(m - 1) : first + j \in D

RequiredDays == IF "required_days" \in DOMAIN Criteria
                THEN Criteria.required_days.n ELSE 0

Consecutive == "consecutive" \in DOMAIN Criteria /\ Criteria.consecutive = B(TRUE)

C19_DistinctDaysAtLeastRequired ==
    (Evaluated("consistency") /\ ~ Consecutive)
    => resp.verdict = IF DatesOf(3) # {} /\ Cardinality(DatesOf(3)) >= RequiredDays
                      THEN "sat" ELSE "unsat"

\* C19, its case: the client has no rows (another client has), required_days
\* is absent, and the criteria are not satisfied
C19_NoRowsNotSatisfied ==
    /\ Evaluated("consistency")
    /\ ~ Consecutive
    /\ DatesOf(3) = {}
    /\ Len(progressRows) > 0
    /\ "required_days" \notin DOMAIN Criteria
    /\ resp.verdict = "unsat"

-----------------------------------------------------------------------------
(* duration criteria *)

\* the evaluation time, and how old the rows drawn are, in days
Today == 31
Ages == {0, 1, 2, 7, 8, 30, 31}

\* time_period absent, a recognised period, 'all', the empty string, null
TimePeriods == {S("day"), S("week"), S("month"), S("all"), S(""), Null}

DurationCriteria ==
    {Dict([type |-> S("duration")])}
    \cup {Dict([type |-> S("duration"), required_duration |-> I(n)]) : n \in 0..3}
    \cup {Dict([type |-> S("duration"), time_period |-> p]) : p \in TimePeriods}
    \cup {Dict([type |-> S("duration"), required_duration |-> I(n),
                time_period |-> p]) : n \in 0..3, p \in TimePeriods}

DurationRows ==
    SeqsUpTo({ProgressRow(3, "exercise", Today - age, seconds, NoRating) :
                 age \in Ages, seconds \in {1, 2}}
             \cup {ProgressRow(OtherClient, "exercise", Today, 2, NoRating)},
             MaxDurationRows)

DurationScenarios ==
    {Scenario(c, r, Today) : c \in DurationCriteria, r \in DurationRows}

InitDuration == \E sc \in DurationScenarios : Drawn(sc)
SpecDuration == InitDuration /\ [][CheckCriteria]_vars

\* the seconds of the rows at the positions ks
RECURSIVE SecondsOf(_)
SecondsOf(ks) ==
    IF ks = {} THEN 0
    ELSE LET k == CHOOSE x \in ks : \A y \in ks : x <= y
         IN progressRows[k].duration_seconds + SecondsOf(ks \ {k})

\* the client's rows that are at most `days` old
Within(client, days) ==
    {k \in 1..Len(progressRows) :
        /\ progressRows[k].client = client
        /\ clock - progressRows[k].completed_at <= days}

RequiredDuration == IF "required_duration" \in DOMAIN Criteria
                    THEN Criteria.required_duration.n ELSE 0

\* C13: duration criteria with time_period = 'week' are satisfied iff the
\* seconds of the client's rows completed within the 7 days before the
\* evaluation time sum to at least required_duration; older rows add nothing.
C13_WeekWindowSum ==
    (Evaluated("duration") /\ "time_period" \in DOMAIN Criteria
        /\ Criteria.time_period = S("week"))
    => resp.verdict = IF SecondsOf(Within(3, 7)) >= RequiredDuration
                      THEN "sat" ELSE "unsat"

\* C13, its case: a row 7 days old counts and a row 8 days old does not, so
\* 2 + 2 seconds do not reach required_duration = 3
C13_EightDaysOldLeftOut ==
    /\ Evaluated("duration")
    /\ "time_period" \in DOMAIN Criteria
    /\ Criteria.time_period = S("week")
    /\ RequiredDuration = 3
    /\ {Today - progressRows[k].completed_at : k \in 1..Len(progressRows)} = {7, 8}
    /\ SecondsOf(1..Len(progressRows)) = 4
    /\ resp.verdict = "unsat"

\* C14: duration criteria without time_period are satisfied iff the seconds
\* of all the client's rows reach required_duration; with a time_period that
\* is not day, week or month they are not satisfied, and nothing is raised.
C14_UnknownPeriodNeverSatisfied ==
    Evaluated("duration")
    => /\ "time_period" \notin DOMAIN Criteria
          => resp.verdict = IF SecondsOf(Within(3, Today)) >= RequiredDuration
                            THEN "sat" ELSE "unsat"
       /\ ("time_period" \in DOMAIN Criteria
              /\ Criteria.time_period \notin {S("day"), S("week"), S("month")})
          => resp.verdict = "unsat"

\* C14, where its case happens: a period that is not recognised was
\* evaluated on rows that reach required_duration
C14_UnknownPeriodEvaluated ==
    /\ Evaluated("duration")
    /\ "time_period" \in DOMAIN Criteria
    /\ Criteria.time_period = S("all")
    /\ SecondsOf(Within(3, Today)) >= RequiredDuration
    /\ resp.verdict = "unsat"

-----------------------------------------------------------------------------
(* difficulty criteria *)

DifficultyCriteria ==
    {Dict([type |-> S("difficulty")])}
    \cup {Dict([type |-> S("difficulty"), required_difficulty |-> I(v)]) : v \in {1, 3, 5}}
    \cup {Dict([type |-> S("difficulty"), required_count |-> I(n)]) : n \in 0..2}
    \cup {Dict([type |-> S("difficulty"), required_difficulty |-> I(v),
                required_count |-> I(n)]) : v \in {1, 3, 5}, n \in 0..2}

\* rows without a rating and with the ratings 1, 3 and 5
DifficultyRows ==
    SeqsUpTo({ProgressRow(3, "exercise", 0, 1, rating) : rating \in {NoRating, 1, 3, 5}}
             \cup {ProgressRow(OtherClient, "exercise", 0, 1, 5)},
             MaxRows)

DifficultyScenarios ==
    {Scenario(c, r, 0) : c \in DifficultyCriteria, r \in DifficultyRows}

InitDifficulty == \E sc \in DifficultyScenarios : Drawn(sc)
SpecDifficulty == InitDifficulty /\ [][CheckCriteria]_vars

RequiredDifficulty == IF "required_difficulty" \in DOMAIN Criteria
                      THEN Criteria.required_difficulty.n ELSE 0

\* required_count, 1 when it is absent
RequiredCountOr1 == IF "required_count" \in DOMAIN Criteria
                    THEN Criteria.required_count.n ELSE 1

\* the client's rows that have a rating (1 to 5) of at least v
RatedAtLeast(client, v) ==
    {k \in 1..Len(progressRows) :
        /\ progressRows[k].client = client
        /\ progressRows[k].difficulty_rating \in 1..5
        /\ progressRows[k].difficulty_rating >= v}

\* C20: difficulty criteria are satisfied iff the number of the client's rows
\* with a rating that is at least required_difficulty is at least
\* required_count (1 when absent); rows without a rating are not counted.
C20_RatedRowsAtLeastRequired ==
    Evaluated("difficulty")
    => resp.verdict = IF Cardinality(RatedAtLeast(3, RequiredDifficulty))
                            >= RequiredCountOr1
                      THEN "sat" ELSE "unsat"

\* C20, its case: the client's only rows have no rating, required_count and
\* required_difficulty are absent, and the criteria are not satisfied
C20_UnratedRowsNotCounted ==
    /\ Evaluated("difficulty")
    /\ DOMAIN Criteria = {"type"}
    /\ Len(ProgressOf(3)) = 2
    /\ \A k \in 1..Len(progressRows) :
          progressRows[k].client = 3 => progressRows[k].difficulty_rating = NoRating
    /\ resp.verdict = "unsat"

-----------------------------------------------------------------------------
(* the award rows there are *)

\* C17: no step of check_achievements, nor any other step, changes or
\* removes a ClientAchievement row there is: the rows of before are the
\* first rows of after, with the same client, achievement, earned_at and
\* progress_data, and the table only grows.
C17_AwardsOnlyGrow ==
    [][/\ Len(awards') >= Len(awards)
       /\ \A k \in 1..Len(awards) : awards'[k] = awards[k]]_vars

\* C17, its case: a pass created an award for a client who held one from an
\* earlier day, and the earlier one is there with its date and its data
C17_SecondAwardBesideFirst ==
    /\ Len(awards) = 2
    /\ awards[1].client = awards[2].client
    /\ awards[1].earned_at < awards[2].earned_at
    /\ awards[1].progress_data.criteria_met_at = I(awards[1].earned_at)
    /\ awards[1].progress_data # awards[2].progress_data

-----------------------------------------------------------------------------
(* criteria without a known type, in the awarding pass *)

\* type missing, empty, null, a number, a list, or a name that has no check;
\* the other keys would satisfy a check if one were run
TypeCriteria ==
    {Dict([required_count |-> I(0), required_duration |-> I(0)])}
    \cup {Dict([type |-> v, required_count |-> I(0), required_duration |-> I(0)]) :
             v \in {S(""), Null, I(5), B(FALSE), List, S("mastery"),
                    S("Exercise_Count"), S("exercise_count ")}}

InitType == \E c \in TypeCriteria : Drawn(Scenario(c, <<>>, 0))
SpecType == InitType /\ [][NextAward]_vars

\* C18: an achievement whose criteria have no type, or a type that is not
\* one of exercise_count, duration, consistency, difficulty and
\* combined_routine, is never awarded, and no check_achievements call ends
\* in an exception because of it, whatever progress the client logs.
C18_UnknownTypeNeverAwarded ==
    /\ awards = <<>>
    /\ resp.exc = ""

\* C18, its case: the pass returned normally, with nothing new, for a client
\* with progress and criteria of the type 'mastery'
C18_UnknownTypePassed ==
    /\ resp.op = "check_achievements"
    /\ resp.code = 200
    /\ resp.new = {}
    /\ "type" \in DOMAIN Criteria
    /\ Criteria.type = S("mastery")
    /\ Len(ProgressOf(3)) = 2

-----------------------------------------------------------------------------
(* UploadProgress.progress_percentage.  The division and the product are    *)
(* those of Python floats, IEEE 754 doubles: each result is the exact value *)
(* rounded to 53 significant bits, a tie going to the even neighbour.  A    *)
(* float is [n, e], of the value n * 2^e; n is a number of four limbs of 18 *)
(* bits, the most significant first, with at most 53 bits from its first 1  *)
(* to its last.  The sizes are below 2^12.                                  *)

MaxTotalSize == 50
MaxUploadedSize == 52

\* the significant bits of a double
Precision == 53

RECURSIVE Pow2(_)
Pow2(k) == IF k = 0 THEN 1 ELSE 2 * Pow2(k - 1)

LimbBits == 18
Base == Pow2(LimbBits)

\* the least k with u < t * 2^k
RECURSIVE Scale(_, _)
Scale(u, t) == IF u < t THEN 0 ELSE 1 + Scale(u, 2 * t)

\* the zeros after the point before the first 1 of r / d in binary, 0 < r < d
RECURSIVE LeadingZeros(_, _)
LeadingZeros(r, d) == IF 2 * r >= d THEN 0 ELSE 1 + LeadingZeros(2 * r, d)

\* the next 18 binary digits of r / d, and what is left of r
Chunk(r, d) == [q |-> (r * Base) \div d, r |-> (r * Base) % d]

\* the carries taken from each limb to the one before it
Carried(p) ==
    LET l3 == p[3] + p[4] \div Base
        l2 == p[2] + l3 \div Base
        l1 == p[1] + l2 \div Base
    IN <<l1, l2 % Base, l3 % Base, p[4] % Base>>

\* the number of binary digits of v
RECURSIVE Digits(_)
Digits(v) == IF v = 0 THEN 0 ELSE 1 + Digits(v \div 2)

BitLength(p) ==
    IF p[1] > 0 THEN 3 * LimbBits + Digits(p[1])
    ELSE IF p[2] > 0 THEN 2 * LimbBits + Digits(p[2])
    ELSE IF p[3] > 0 THEN LimbBits + Digits(p[3])
    ELSE Digits(p[4])

\* p, followed by more digits if sticky, rounded to the precision; p has
\* more than 53 digits and fewer than 72, so that those dropped are in the
\* last limb
RoundToNearestEven(p, sticky) ==
    LET dropped == BitLength(p) - Precision
        unit == Pow2(dropped)
        low == p[4] % unit
        odd == IF dropped = LimbBits THEN p[3] % 2 = 1
               ELSE (p[4] \div unit) % 2 = 1
        up == \/ 2 * low > unit
              \/ 2 * low = unit /\ (sticky \/ odd)
    IN Carried(<<p[1], p[2], p[3], p[4] - low + (IF up THEN unit ELSE 0)>>)

Zero == [n |-> <<0, 0, 0, 0>>, e |-> 0]

\* u / t for ints u >= 0 and t > 0: 54 digits of the quotient from its first
\* 1 on, the last of them rounded away
TrueDivide(u, t) ==
    IF u = 0 THEN Zero
    ELSE LET k == Scale(u, t)
             d == t * Pow2(k)
             z == LeadingZeros(u, d)
             a == Chunk(u * Pow2(z), d)
             b == Chunk(a.r, d)
             c == Chunk(b.r, d)
         IN [n |-> RoundToNearestEven(<<0, a.q, b.q, c.q>>, c.r # 0),
             e |-> k - z - 3 * LimbBits]

\* x * v for a float x and an int v, 0 < v < 2^7
Times(x, v) ==
    IF x = Zero THEN Zero
    ELSE [n |-> RoundToNearestEven(
                    Carried(<<x.n[1] * v, x.n[2] * v, x.n[3] * v, x.n[4] * v>>),
                    FALSE),
          e |-> x.e]

\* int(x) for a float 0 <= x < 2^18: the digits before the point
Truncate(x) ==
    LET shift == - x.e - 2 * LimbBits
    IN IF x = Zero \/ shift > 30 THEN 0
       ELSE (x.n[1] * Base + x.n[2]) \div Pow2(shift)

\* UploadProgress.progress_percentage
progress_percentage(self) ==
    IF self.total_size = 0 THEN 0
    ELSE Min({100, Truncate(Times(TrueDivide(self.uploaded_size, self.total_size), 100))})

\* MediaAssetViewSet.get_progress: the serialized row, of which the
\* percentage is kept
GetProgress(owner, upload_id) ==
    /\ resp' = IF upload_id = 0 THEN Reply("get_progress", 400, 0)
               ELSE IF ~ Found(upload_id, owner)
               THEN Reply("get_progress", 404, upload_id)
               ELSE [Reply("get_progress", 200, upload_id) EXCEPT
                        !.pct = progress_percentage(sessions[upload_id])]
    /\ UNCHANGED <<clock, uploadVars, awardVars>>

\* the row of a traditional upload of total_size bytes, of which
\* uploaded_size were reported
StoredSession(total_size, uploaded_size) ==
    UpdateProgress(
        CreateForTraditionalUpload(
            [name |-> <<"a">>, content_type |-> "image/png", size |-> total_size],
            1, "image"),
        [uploaded_size |-> uploaded_size, status |-> "uploading"], 0)

InitPercentage ==
    /\ \E total_size \in 0..MaxTotalSize, uploaded_size \in 0..MaxUploadedSize :
          sessions = <<StoredSession(total_size, uploaded_size)>>
    /\ assets = <<>>
    /\ stored = {}
    /\ inflight = [i \in Slots |-> Idle]
    /\ completedLog = {}
    /\ clock = 0
    /\ resp = NoResp
    /\ AwardIdle

NextPercentage ==
    \E owner \in Owners, upload_id \in 0..MaxSessions : GetProgress(owner, upload_id)

SpecPercentage == InitPercentage /\ [][NextPercentage]_vars

\* C15: the percentage reported for a session is 0 when total_size is 0 and
\* otherwise the lesser of 100 and floor(100 * uploaded_size / total_size),
\* so exactly 100 when uploaded_size exceeds total_size.
C15_PercentageIsFloor ==
    (resp.op = "get_progress" /\ resp.code = 200)
    => LET self == sessions[resp.upload_id]
       IN resp.pct = IF self.total_size = 0 THEN 0
                     ELSE Min({100, (100 * self.uploaded_size) \div self.total_size})

\* C15, its case: the percentage of 29 bytes of 50 was read
C15_PercentageRead ==
    /\ resp.op = "get_progress"
    /\ resp.code = 200
    /\ sessions[resp.upload_id].total_size = 50
    /\ sessions[resp.upload_id].uploaded_size = 29

-----------------------------------------------------------------------------
(* the update_progress endpoint on a session of a direct upload *)

ReportedSize == 3

InitUpdate ==
    /\ sessions = <<CreateForDirectUpload(
                        GenerateUploadPolicy(<<"a">>, 1, "image", 0), 1)>>
    /\ assets = <<>>
    /\ stored = {}
    /\ inflight = [i \in Slots |-> Idle]
    /\ completedLog = {}
    /\ clock = 0
    /\ resp = NoResp
    /\ AwardIdle

NextUpdate ==
    \/ \E owner \in Owners, upload_id \in 0..MaxSessions,
          uploaded_size \in {NotGiven, 0, ReportedSize},
          status \in STATUS_CHOICES \cup {None}, error_message \in {None, "msg"} :
          UpdateProgressEndpoint(owner, upload_id, uploaded_size, status, error_message)
    \/ Tick

SpecUpdate == InitUpdate /\ [][NextUpdate]_vars

\* C16: an update_progress request of the owner that reports an
\* uploaded_size stores it; the status and the error_message are replaced
\* when one is given and kept otherwise; completed_at is set to the time of
\* the request when the status given is 'completed' and kept otherwise; the
\* session's id, owner, file_name and total_size stay as they were.
C16_UpdateStoresReport ==
    [][\A owner \in Owners, uploaded_size \in {0, ReportedSize},
          status \in STATUS_CHOICES \cup {None}, error_message \in {None, "msg"} :
          (Found(1, owner)
           /\ UpdateProgressEndpoint(owner, 1, uploaded_size, status, error_message))
          => /\ Len(sessions') = Len(sessions)
             /\ sessions'[1].uploaded_size = uploaded_size
             /\ sessions'[1].status =
                    IF status # None THEN status ELSE sessions[1].status
             /\ sessions'[1].error_message =
                    IF error_message # None THEN error_message
                    ELSE sessions[1].error_message
             /\ sessions'[1].completed_at =
                    IF status = "completed" THEN clock
                    ELSE sessions[1].completed_at
             /\ sessions'[1].instructor = sessions[1].instructor
             /\ sessions'[1].file_name = sessions[1].file_name
             /\ sessions'[1].total_size = sessions[1].total_size]_vars

\* C16, its case: a request was answered for a session that holds a
\* reported size and was completed on the second day
C16_UpdateAnswered ==
    /\ resp.op = "update_progress"
    /\ resp.code = 200
    /\ sessions[1].uploaded_size = ReportedSize
    /\ sessions[1].status = "completed"
    /\ sessions[1].completed_at = 1

-----------------------------------------------------------------------------
(* combined_routine criteria *)

\* with and without routine_id, which may be 0 or null
CombinedCriteria ==
    {Dict([type |-> S("combined_routine"), required_count |-> I(n)]) : n \in 0..2}
    \cup {Dict([type |-> S("combined_routine"), required_count |-> I(n),
                routine_id |-> v]) : n \in 0..2, v \in {I(0), I(1), Null}}

CombinedScenarios ==
    {Scenario(c, r, 0) : c \in CombinedCriteria, r \in SeqsUpTo(
        {ProgressRow(c2, kind, 0, 1, NoRating) :
            c2 \in {3, OtherClient}, kind \in {"exercise", "meditation_session"}}, 3)}

InitCombined == \E sc \in CombinedScenarios : Drawn(sc)
SpecCombined == InitCombined /\ [][CheckCriteria]_vars

\* the client's rows that are tagged with a combined routine
CombinedCount ==
    Cardinality({k \in 1..Len(progressRows) :
        /\ progressRows[k].client = 3
        /\ progressRows[k].kind = "combined_routine"})

\* C21: combined_routine criteria are evaluated without an error, and are
\* satisfied iff the number of the client's rows tagged with a combined
\* routine is at least required_count.
C21_CombinedCountAtLeastRequired ==
    Evaluated("combined_routine")
    => resp.verdict = IF CombinedCount >= Criteria.required_count.n
                      THEN "sat" ELSE "unsat"

\* C21, its case: criteria for one routine were evaluated for a client with
\* rows
C21_CombinedEvaluated ==
    /\ Evaluated("combined_routine")
    /\ "routine_id" \in DOMAIN Criteria
    /\ Criteria.routine_id = I(1)
    /\ Len(ProgressOf(3)) = 2

-----------------------------------------------------------------------------
(* the evidence stored with an award *)

\* criteria of the four types that count rows, with each filter on the kind
\* of exercise
EvidenceCriteria ==
    {Dict([type |-> S("exercise_count"), required_count |-> I(1)])}
    \cup {Dict([type |-> S("exercise_count"), required_count |-> I(n),
                exercise_type |-> S(f)]) :
             n \in {0, 1}, f \in {"all", "exercise", "breathing", "meditation"}}
    \cup {Dict([type |-> S("duration"), required_duration |-> I(2)]),
          Dict([type |-> S("duration"), required_duration |-> I(2),
                time_period |-> S("day")]),
          Dict([type |-> S("consistency"), required_days |-> I(2)]),
          Dict([type |-> S("consistency"), required_days |-> I(2),
                consecutive |-> B(TRUE)]),
          Dict([type |-> S("difficulty"), required_difficulty |-> I(3)])}

InitEvidence == \E c \in EvidenceCriteria : Drawn(Scenario(c, <<>>, 0))
SpecEvidence == InitEvidence /\ [][NextAward]_vars

\* request i leaves its try block in this step
EvalStep(i) ==
    /\ checks[i] # Idle
    /\ checks[i].pc = "eval"
    /\ checks'[i] = Idle \/ checks'[i].pc = "exists"

\* the number the check of the criteria d compares with its threshold
Compared(rows, d, now) ==
    CASE d.type = S("exercise_count") ->
            Cardinality({k \in 1..Len(rows) :
                \/ FilterOf(d) = "all"
                \/ rows[k].kind = KindField[FilterOf(d)]})
      [] d.type = S("duration") ->
            SumDuration(rows,
                IF "time_period" \in DOMAIN d
                THEN {k \in 1..Len(rows) :
                         rows[k].completed_at >= now - PeriodDays[d.time_period.s]}
                ELSE 1..Len(rows))
      [] d.type = S("consistency") ->
            IF Truthy(Get(d, "consecutive", Null)) THEN MaxStreak(rows)
            ELSE Cardinality(Days(rows))
      [] d.type = S("difficulty") ->
            Cardinality(Rated(rows, d.required_difficulty.n))

\* the threshold of the criteria d
Threshold(d) ==
    CASE d.type = S("exercise_count") -> d.required_count.n
      [] d.type = S("duration") -> d.required_duration.n
      [] d.type = S("consistency") -> d.required_days.n
      [] d.type = S("difficulty") -> Get(d, "required_count", I(1)).n

\* the metric of the stored evidence, -1 if it is not there
Metric(data, d) ==
    LET key == CASE d.type = S("exercise_count") -> "total_count"
                 [] d.type = S("duration") -> "total_duration"
                 [] d.type = S("consistency") ->
                        IF Truthy(Get(d, "consecutive", Null))
                        THEN "max_consecutive_days" ELSE "total_days"
                 [] d.type = S("difficulty") -> "difficulty_count"
    IN IF key \in DOMAIN data THEN data[key].n ELSE -1

\* C22: when the check of an unearned achievement's criteria is satisfied,
\* the pass creates the award, and the metric in its progress_data is the
\* number the check compared with the threshold, over the same rows and the
\* same filter, and so at least the threshold; for every type of criteria
\* and every filter on the kind of exercise.
C22_EvidenceMirrorsCheck ==
    [][\A i \in CheckSlots :
          (/\ EvalStep(i)
           /\ Verdict(checks[i].client, checks[i].cur, clock) = "sat"
           /\ UniqueTogether(awards, [client |-> checks[i].client,
                                      achievement |-> checks[i].cur]))
          => /\ Len(awards') = Len(awards) + 1
             /\ LET row == awards'[Len(awards')]
                    rows == ProgressOf(checks[i].client)
                IN /\ row.client = checks[i].client
                   /\ row.achievement = checks[i].cur
                   /\ Metric(row.progress_data, Criteria) =
                          Compared(rows, Criteria, clock)
                   /\ Metric(row.progress_data, Criteria) >= Threshold(Criteria)]_vars

\* C22, its case: an award for one exercise, stored with the count of the
\* rows of that kind and not of all the client's rows
C22_FilteredCountStored ==
    /\ Len(awards) = 1
    /\ FilterOf(Criteria) = "exercise"
    /\ Len(ProgressOf(3)) = 2
    /\ awards[1].progress_data.total_count = I(1)

-----------------------------------------------------------------------------
(* the creation of sessions: get_upload_policy and the traditional upload *)

\* C23: a step that creates an UploadProgress session adds one row, in
\* status 'pending' with uploaded_size 0, no completed_at and no
\* error_message; its total_size is the size ceiling of the policy issued
\* (direct flow) or the declared size of the incoming file (traditional
\* flow).
C23_CreatedPending ==
    [][Len(sessions') > Len(sessions)
       => /\ Len(sessions') = Len(sessions) + 1
          /\ LET id == Len(sessions')
                 s == sessions'[id]
             IN /\ s.status = "pending"
                /\ s.uploaded_size = 0
                /\ s.completed_at = NoTime
                /\ s.error_message = None
                /\ IF resp'.op = "get_upload_policy"
                   THEN s.total_size = MAX_FILE_SIZES[s.asset_type]
                   ELSE \E i \in Slots :
                           /\ inflight'[i].kind = "create"
                           /\ inflight'[i].upload_id = id
                           /\ s.total_size = inflight'[i].file_obj.size]_vars

\* C23, its case: the row of a traditional upload of a file of 2 bytes, as
\* it was created
C23_TraditionalCreated ==
    /\ Len(sessions) = 1
    /\ sessions[1].file_path = NoPath
    /\ sessions[1].status = "pending"
    /\ sessions[1].total_size = 2
    /\ \E i \in Slots : inflight[i].kind = "create"

\* a file that perform_create does not accept
Rejected(file_obj) ==
    \/ file_obj = NoFile
    \/ \A ty \in DOMAIN MEDIA_ASSET_TYPES :
          file_obj.content_type \notin MEDIA_ASSET_TYPES[ty]
    \/ \E ty \in DOMAIN MEDIA_ASSET_TYPES :
          /\ file_obj.content_type \in MEDIA_ASSET_TYPES[ty]
          /\ file_obj.size > MAX_FILE_SIZES[ty]

\* C24: get_upload_policy without file_name or asset_type, or with an asset
\* type that is not supported, and a traditional upload without a file, of
\* an unsupported content type or of more than the maximum size for its
\* type, change no session, asset or stored object; a file of a supported
\* type and of the maximum size or less gets its session.
C24_RejectedChangesNothing ==
    [][/\ resp'.op = "get_upload_policy"
          => \A owner \in Owners, file_name \in FileNames,
                asset_type \in {None, "image", "bogus"} :
                (/\ file_name = NoPath \/ asset_type \notin ASSET_TYPES
                 /\ GetUploadPolicy(owner, file_name, asset_type, "ok", "ok"))
                => UNCHANGED uploadVars
       /\ (resp'.op \in {"create", "none"} /\ FreeSlots # {})
          => \A i \in Slots, owner \in Owners, file_obj \in Files :
                PerformCreateBegin(i, owner, file_obj)
                => IF Rejected(file_obj)
                   THEN UNCHANGED uploadVars
                   ELSE /\ Len(sessions') = Len(sessions) + 1
                        /\ UNCHANGED assets]_vars

\* C24, its case: a traditional upload was refused on the second day, and
\* there is no session, asset or stored object
C24_RefusedNothingCreated ==
    /\ resp.op = "create"
    /\ resp.exc = "ValidationError"
    /\ resp.upload_id = 0
    /\ clock = 1
    /\ sessions = <<>>
    /\ assets = <<>>
    /\ stored = {}

-----------------------------------------------------------------------------
(* requests on a session by its owner and by another instructor *)

NextOwner ==
    \/ \E owner \in Owners, upload_id \in 0..MaxSessions,
          uploaded_size \in {NotGiven, ReportedSize},
          status \in {None, "uploading", "completed"} :
          UpdateProgressEndpoint(owner, upload_id, uploaded_size, status, None)
    \/ \E owner \in Owners, upload_id \in 0..MaxSessions : GetProgress(owner, upload_id)
    \/ \E i \in Slots, owner \in Owners, upload_id \in 0..MaxSessions,
          file_path \in RequestPaths :
          VerifyUploadBegin(i, owner, upload_id, file_path)
    \/ \E i \in Slots, ctor \in Ctor, ext \in Ext : VerifyUploadFinish(i, ctor, ext)
    \/ \E path \in IssuedPaths \cup OtherPaths : ClientPut(path)

SpecOwner == InitUpdate /\ [][NextOwner]_vars

\* C25: update_progress, get_progress and verify_upload with the upload_id
\* of a session of another instructor answer 404 and leave the sessions and
\* the assets as they were.
C25_OtherOwnerNotFound ==
    [][\A i \in Slots, upload_id \in 1..Len(sessions), owner \in Owners :
          (/\ owner # sessions[upload_id].instructor
           /\ \/ \E uploaded_size \in {NotGiven, ReportedSize},
                    status \in {None, "uploading", "completed"} :
                    UpdateProgressEndpoint(owner, upload_id, uploaded_size,
                                           status, None)
              \/ GetProgress(owner, upload_id)
              \/ \E file_path \in RequestPaths \ {NoPath} :
                    VerifyUploadBegin(i, owner, upload_id, file_path))
          => /\ resp'.code = 404
             /\ sessions' = sessions
             /\ assets' = assets]_vars

\* C25, its case: instructor 12 asked for the progress of a session of
\* instructor 1 that is being uploaded, and was answered 404
C25_OtherOwnerAsked ==
    /\ resp.op = "get_progress"
    /\ resp.code = 404
    /\ resp.upload_id = 1
    /\ sessions[1].instructor = 1
    /\ sessions[1].status = "uploading"

-----------------------------------------------------------------------------
(* deleting a MediaAsset *)

\* the rows a deletion may meet: of either instructor, with a stored object
\* or without a file_path
AssetRows ==
    {NewAsset(o, p, "image", 0) :
        o \in Owners, p \in {GenerateFilePath(<<"a">>, 1, "image", 0), NoPath}}

InitDelete ==
    /\ sessions = <<>>
    /\ assets \in {<<a>> : a \in AssetRows} \cup
                  {<<a, b>> : a \in AssetRows, b \in AssetRows}
    /\ stored \in SUBSET {GenerateFilePath(<<"a">>, 1, "image", 0)}
    /\ inflight = [i \in Slots |-> Idle]
    /\ completedLog = {}
    /\ clock = 0
    /\ resp = NoResp
    /\ AwardIdle

\* Model.delete: the row leaves the table (the rows after it move up)
DeleteRow(table, pk) ==
    [k \in 1..(Len(table) - 1) |-> IF k < pk THEN table[k] ELSE table[k + 1]]

\* SupabaseStorage.delete_file: remove([file_path]); an exception raised by
\* the call is caught there and False is returned
DeleteFile(file_path, ext) ==
    IF ext = "ok" THEN stored \ {file_path} ELSE stored

\* DestroyModelMixin.destroy: get_object() on get_queryset(), then
\* perform_destroy -> MediaAsset.delete.  SupabaseStorage() is built before
\* the test of file_path and outside any try.
PerformDestroy(owner, pk, ctor, ext) ==
    /\ IF ~ (pk \in 1..Len(assets) /\ assets[pk].instructor = owner)
       THEN /\ resp' = Reply("destroy", 404, pk)
            /\ UNCHANGED <<assets, stored>>
       ELSE IF ctor = "raise"
       THEN /\ resp' = Via(Raised("destroy", "StorageError", pk),
                           "storage_raised", assets[pk].file_path)
            /\ UNCHANGED <<assets, stored>>
       ELSE LET self == assets[pk]
            IN /\ stored' = IF self.file_path # NoPath
                            THEN DeleteFile(self.file_path, ext) ELSE stored
               /\ assets' = DeleteRow(assets, pk)
               /\ resp' = Via(Reply("destroy", 204, pk),
                              IF self.file_path = NoPath THEN "no_file"
                              ELSE IF ext = "ok" THEN "removed"
                              ELSE "remove_raised",
                              self.file_path)
    /\ UNCHANGED <<sessions, inflight, completedLog, clock>>
    /\ UNCHANGED awardVars

\* a file is put at the path of an asset's object
PutObject ==
    /\ stored' = stored \cup {GenerateFilePath(<<"a">>, 1, "image", 0)}
    /\ stored' # stored
    /\ resp' = NoResp
    /\ UNCHANGED <<sessions, assets, inflight, completedLog, clock>>
    /\ UNCHANGED awardVars

NextDelete ==
    \/ \E owner \in Owners, pk \in 1..MaxAssets, ctor \in Ctor, ext \in Ext :
          PerformDestroy(owner, pk, ctor, ext)
    \/ PutObject

SpecDelete == InitDelete /\ [][NextDelete]_vars

\* C26: deleting a MediaAsset that has a file_path asks the bucket to remove
\* the object at that path (a removal that succeeds leaves no object there)
\* and then removes the row; whatever fails in the storage, the row is
\* removed and no exception reaches the caller.
C26_DeleteBestEffort ==
    [][\A owner \in Owners, pk \in 1..Len(assets), ctor \in Ctor, ext \in Ext :
          (/\ assets[pk].instructor = owner
           /\ assets[pk].file_path # NoPath
           /\ PerformDestroy(owner, pk, ctor, ext))
          => /\ resp'.exc = ""
             /\ assets' = DeleteRow(assets, pk)
             /\ ctor = "ok" /\ ext = "ok" => assets[pk].file_path \notin stored']_vars

\* C26, its case: the owner deleted an asset whose object is in the bucket,
\* and the storage failed
C26_StorageFailedOnDelete ==
    /\ resp.op = "destroy"
    /\ resp.via \in {"storage_raised", "remove_raised"}
    /\ resp.file_path \in stored

-----------------------------------------------------------------------------
(* the order of the statuses of a session *)

\* the place of a status in the chain pending, uploading, verifying, completed
Rank(status) ==
    CASE status = "pending" -> 0
      [] status = "uploading" -> 1
      [] status = "verifying" -> 2
      [] status = "completed" -> 3
      [] OTHER -> 4

\* C27: every step leaves the status of a session as it is, moves it forward
\* along pending, uploading, verifying, completed, or moves it from a status
\* that is not terminal to 'failed'; and it becomes 'completed' only from
\* 'verifying'.
C27_StatusMovesForward ==
    [][\A id \in 1..Len(sessions) :
          LET old == sessions[id].status
              new == sessions'[id].status
          IN \/ new = old
             \/ /\ new = "failed"
                /\ old \notin {"completed", "failed"}
             \/ /\ old # "failed"
                /\ new # "failed"
                /\ Rank(old) < Rank(new)
                /\ new = "completed" => old = "verifying"]_vars

\* C27, its case: a session that was moved along the chain to 'verifying' by
\* a verify_upload request that is still running
C27_SessionVerifying ==
    \E i \in Slots :
        /\ inflight[i].kind = "verify"
        /\ sessions[inflight[i].upload_id].status = "verifying"
        /\ sessions[inflight[i].upload_id].uploaded_size
              = sessions[inflight[i].upload_id].total_size

-----------------------------------------------------------------------------
(* the assets of one session *)

-----------------------------------------------------------------------------
(* completed_at *)

\* C29: a session is 'completed' exactly when its completed_at is set.
C29_CompletedIffCompletedAt ==
    \A id \in 1..Len(sessions) :
        sessions[id].status = "completed" <=> sessions[id].completed_at # NoTime

\* C29, its case: a session was saved as 'completed' and its completed_at
\* is the time of that save
C29_CompletedAtSet ==
    \E id \in 1..Len(sessions) :
        /\ id \in completedLog
        /\ sessions[id].status = "completed"
        /\ sessions[id].completed_at = clock
        /\ resp.op = "update_progress"

-----------------------------------------------------------------------------
(* verify_upload with the path of another upload of the same instructor *)

\* two direct uploads of instructor 1, each with its issued path
InitPaths ==
    /\ sessions = <<CreateForDirectUpload(
                        GenerateUploadPolicy(<<"a">>, 1, "image", 0), 1),
                    CreateForDirectUpload(
                        GenerateUploadPolicy(<<"b">>, 1, "image", 0), 1)>>
    /\ assets = <<>>
    /\ stored = {}
    /\ inflight = [i \in Slots |-> Idle]
    /\ completedLog = {}
    /\ clock = 0
    /\ resp = NoResp
    /\ AwardIdle

NextPaths ==
    \/ \E path \in IssuedPaths : ClientPut(path)
    \/ \E i \in Slots, owner \in Owners, upload_id \in 1..Len(sessions),
          file_path \in RequestPaths :
          VerifyUploadBegin(i, owner, upload_id, file_path)
    \/ \E i \in Slots, ctor \in Ctor, ext \in Ext : VerifyUploadFinish(i, ctor, ext)

SpecPaths == InitPaths /\ [][NextPaths]_vars

====
